---- MODULE Spec2Model ----
(***************************************************************************)
(* Wallet transaction builder of full-service                              *)
(* (src/full-service/src/service/transaction_builder.rs) and the decoy     *)
(* sampling of the ledger service (src/full-service/src/service/ledger.rs) *)
(* as a state machine.                                                     *)
(*                                                                         *)
(* Amounts are unsigned machine words.  The model keeps the word width but *)
(* scales it down: U64_MAX stands for u64::MAX, u64 arithmetic is done     *)
(* modulo U64_MAX + 1, and the u128 accumulators of the code are exact     *)
(* integers (they never overflow for the sums the code forms).             *)
(***************************************************************************)
EXTENDS Integers, Sequences, FiniteSets, TLC

VARIABLES
    num_blocks,   \* LedgerDB: number of blocks in the ledger
    num_txos,     \* LedgerDB: number of tx outs in the ledger (indices 0..num_txos-1)
    spent,        \* wallet db: txo id -> spent_block_index (None when unspent)
    inputs,       \* builder.inputs: sequence of wallet txo ids
    outlays,      \* builder.outlays: sequence of [recipient, value, token_id]
    tombstone,    \* builder.tombstone
    fee,          \* builder.fee: NoFee or <<value, token_id>>
    ret,          \* the last call and what it returned: [op, err]
    tx,           \* the signing data returned by the last build (NoTx otherwise)
    mix,          \* what the last direct call of get_rings / sample_mixins returned
    account,      \* wallet db: the kind of the account ("full", "view_only", "fog")
    assigned,     \* wallet db: the subaddress indices of assigned_subaddresses
    subaddress_index, \* wallet db: txo id -> subaddress_index (None when orphaned)
    key_image,    \* wallet db: txo id -> key_image (None when not known)
    key_images    \* LedgerDB: key image -> index of the block that spent it (None when unspent)

\* the variables only create_next_for_account and the spends of the ledger change
subaddress_vars == <<account, assigned, subaddress_index, key_image, key_images>>

vars == <<num_blocks, num_txos, spent, inputs, outlays, tombstone, fee, ret, tx, mix,
          account, assigned, subaddress_index, key_image, key_images>>

-----------------------------------------------------------------------------
(* Bounds of the model *)

\* stands for u64::MAX: the largest value of an amount word
U64_MAX == 7
\* stands for mc_transaction_core::constants::RING_SIZE (scaled down)
RING_SIZE == 2
\* stands for Mob::MINIMUM_FEE (scaled down with the word width)
MINIMUM_FEE == 2
\* longest recipient list a builder is given
MaxOutlays == 2
\* the ledger grows up to this many blocks
MaxBlocks == 2
\* largest argument list handed to a direct sampling call
MaxExcluded == 3
\* largest subaddress index create_next_for_account assigns
MaxSubaddress == 2
\* most inputs of an unsigned transaction proposal handed to the signer side
MaxInputs == 2

(* Program constants *)
DEFAULT_NEW_TX_BLOCK_ATTEMPTS == 10
MobId == 0

\* Option::None of a block index or of a cap
None == 0 - 1
\* Option::None of the fee
NoFee == <<>>
\* no signing data, no sampling result
NoTx == [none |-> "tx"]
NoMix == [none |-> "mix"]

Modulus == U64_MAX + 1
TokenIds == {MobId, MobId + 1}
\* the (recipient, value, token id) a caller passes to add_recipient
OutlayArgs ==
    {<<"b", 1, MobId>>, <<"a", U64_MAX, MobId>>, <<"a", U64_MAX, MobId + 1>>}
\* the lists of txo ids a caller passes to set_txos
SetTxosArgs == {{1}, {2}, {1, 2}, {1, 3}, {2, 4}, {1, 2, 3, 4}}
\* the (fee, token id) a caller passes to set_fee: zero, a fee below the
\* minimum and a fee above it
FeeArgs ==
    {<<0, MobId>>, <<MINIMUM_FEE - 1, MobId>>, <<MINIMUM_FEE + 1, MobId + 1>>}
\* tombstones a caller passes to set_tombstone
TombstoneArgs == {0, 1}
\* caps a caller passes to select_txos
MaxSpendableArgs == {None, 1}

-----------------------------------------------------------------------------
(* The wallet db: the Txo rows of the account.  Every row is an output of  *)
(* the ledger (the sync thread wrote it when it scanned the block).        *)

TxoIds == 1 .. 4
TxoValue(id) == CASE id = 1 -> 1
                  [] id = 2 -> 2
                  [] id = 3 -> U64_MAX - 1
                  [] OTHER  -> 1
TxoTokenId(id) == IF id = 3 THEN MobId + 1 ELSE MobId
\* get_tx_out_index_by_hash of the row's TxOut
TxoLedgerIndex(id) == id - 1
\* the rows as the sync thread left them: txo 4 was spent in block 0
InitSpent == [id \in TxoIds |-> IF id = 4 THEN 0 ELSE None]
\* the ledger holds the account's outputs and one more
InitTxos == Cardinality(TxoIds) + 1
\* the subaddress an output was sent to: the one whose spend public key
\* recover_public_subaddress_spend_key returns for the output
TxoSubaddress(id) == CASE id = 1 -> 1
                       [] id = 2 -> 1
                       [] id = 3 -> 2
                       [] OTHER  -> 0
\* KeyImage::from(&onetime_private_key) of an output: one key image for each
TxoKeyImage(id) == id
\* get_block_index_by_tx_out_index: the first InitTxos outputs are in block 0,
\* every later block holds one output
BlockOfTxOut(index) == IF index < InitTxos THEN 0 ELSE index - InitTxos + 1
\* the key images of the ledger: output 4 was spent in block 0
InitKeyImages == [k \in TxoIds |-> IF k = TxoKeyImage(4) THEN 0 ELSE None]

-----------------------------------------------------------------------------
(* Helpers *)

RECURSIVE SetToSeq(_)
SetToSeq(S) ==
    IF S = {} THEN <<>>
    ELSE LET m == CHOOSE x \in S : \A y \in S : x <= y
         IN <<m>> \o SetToSeq(S \ {m})

RECURSIVE SumSeq(_)
SumSeq(s) == IF s = <<>> THEN 0 ELSE Head(s) + SumSeq(Tail(s))

SeqRange(s) == {s[i] : i \in 1 .. Len(s)}

\* the values of a sequence of txo ids
TxoValues(ids) == [i \in 1 .. Len(ids) |-> TxoValue(ids[i])]

\* injective sequences of length k over S
InjSeqs(S, k) == {s \in [1 .. k -> S] : \A i, j \in 1 .. k : i # j => s[i] # s[j]}

-----------------------------------------------------------------------------
(* WalletTransactionBuilder::new *)

NewRet == [op |-> "new", err |-> "Ok"]

-----------------------------------------------------------------------------
(* WalletTransactionBuilder::set_txos *)

\* Txo::select_by_id: the rows with the given ids, in the order of the table
select_by_id(ids) == SetToSeq(ids \cap TxoIds)

\* unspent_of as it would be with the spent rows kept
unspent_of_keeping_spent(txos, sp) == txos

\* .filter(|txo| txo.spent_block_index == None)
unspent_of(txos, sp) == SelectSeq(txos, LAMBDA id : sp[id] = None)

\* the call: the error it returns and the inputs the builder holds afterwards
set_txos(ids, sp, cur) ==
    LET unspent == unspent_of(select_by_id(ids), sp)
    IN IF SumSeq(TxoValues(unspent)) > U64_MAX
       THEN [err |-> "OutboundValueTooLarge", inputs |-> cur]
       ELSE [err |-> "Ok", inputs |-> unspent]

-----------------------------------------------------------------------------
(* Txo::select_spendable_txos_for_value (db/txo.rs): the selection of      *)
(* spec section 4.1, smallest output first.                                *)

\* ids of S ordered by increasing value, then id
RECURSIVE SortByValue(_)
SortByValue(S) ==
    IF S = {} THEN <<>>
    ELSE LET m == CHOOSE x \in S : \A y \in S :
                      \/ TxoValue(x) < TxoValue(y)
                      \/ TxoValue(x) = TxoValue(y) /\ x <= y
         IN <<m>> \o SortByValue(S \ {m})

\* shortest prefix of txos whose values reach target
RECURSIVE TakeUntil(_, _)
TakeUntil(txos, target) ==
    IF target <= 0 \/ txos = <<>> THEN <<>>
    ELSE <<Head(txos)>> \o TakeUntil(Tail(txos), target - TxoValue(Head(txos)))

select_spendable_txos_for_value(target_value, max_spendable_value, token_id, sp) ==
    LET unspent == {id \in TxoIds : sp[id] = None /\ TxoTokenId(id) = token_id}
        spendable == {id \in unspent :
                          max_spendable_value = None \/ TxoValue(id) <= max_spendable_value}
        total(S) == SumSeq(TxoValues(SetToSeq(S)))
    IN IF spendable = {}
       THEN [err |-> "NoSpendableTxos", txos |-> <<>>]
       ELSE IF total(spendable) < target_value
       THEN IF total(unspent) >= target_value
            THEN [err |-> "InsufficientFundsUnderMaxSpendable", txos |-> <<>>]
            ELSE [err |-> "InsufficientFunds", txos |-> <<>>]
       ELSE [err |-> "Ok", txos |-> TakeUntil(SortByValue(spendable), target_value)]

-----------------------------------------------------------------------------
(* WalletTransactionBuilder::select_txos *)

\* fee_or_default as it would be with the fee of set_fee ignored
fee_or_default_ignoring_set_fee(f) == <<MINIMUM_FEE, MobId>>

\* self.fee.unwrap_or((Mob::MINIMUM_FEE, Mob::ID))
fee_or_default(f) == IF f = NoFee THEN <<MINIMUM_FEE, MobId>> ELSE f

\* sum (as u128) of the outlay values of one token id
outlay_sum(outl, token_id) ==
    SumSeq([i \in 1 .. Len(outl) |->
               IF outl[i].token_id = token_id THEN outl[i].value ELSE 0])

\* the keys of outlay_value_sum_map, in the order a BTreeMap iterates them
target_token_ids(outl, f) ==
    SetToSeq({outl[i].token_id : i \in 1 .. Len(outl)} \cup {fee_or_default(f)[2]})

\* the value outlay_value_sum_map holds for a key (u128)
target_value_of(outl, f, token_id) ==
    outlay_sum(outl, token_id)
        + (IF token_id = fee_or_default(f)[2] THEN fee_or_default(f)[1] ELSE 0)

\* the for loop of select_txos over the remaining keys, cur being self.inputs
RECURSIVE select_loop(_, _, _, _, _, _)
select_loop(toks, outl, f, max_spendable_value, sp, cur) ==
    IF toks = <<>> THEN [err |-> "Ok", inputs |-> cur]
    ELSE LET target_value == target_value_of(outl, f, Head(toks))
         IN IF target_value > U64_MAX
            THEN [err |-> "OutboundValueTooLarge", inputs |-> cur]
            ELSE LET r == select_spendable_txos_for_value(
                              target_value, max_spendable_value, Head(toks), sp)
                 IN IF r.err # "Ok"
                    THEN [err |-> r.err, inputs |-> cur]
                    ELSE select_loop(Tail(toks), outl, f, max_spendable_value, sp, r.txos)

\* select_txos as it would be with max_spendable_value not passed on
select_txos_ignoring_max_spendable(outl, f, max_spendable_value, sp, cur) ==
    select_loop(target_token_ids(outl, f), outl, f, None, sp, cur)

select_txos(outl, f, max_spendable_value, sp, cur) ==
    select_loop(target_token_ids(outl, f), outl, f, max_spendable_value, sp, cur)

-----------------------------------------------------------------------------
(* WalletTransactionBuilder::add_recipient, set_fee, set_tombstone *)

\* add_recipient_fails as it would be with the new value counted in the sum
add_recipient_fails_counting_value(outl, value, token_id) ==
    outlay_sum(outl, token_id) + value > U64_MAX

\* the guard of add_recipient: cur_sum > u64::MAX
add_recipient_fails(outl, value, token_id) == outlay_sum(outl, token_id) > U64_MAX

add_recipient(outl, recipient, value, token_id) ==
    IF add_recipient_fails(outl, value, token_id)
    THEN [err |-> "OutboundValueTooLarge", outlays |-> outl]
    ELSE [err |-> "Ok",
          outlays |-> Append(outl, [recipient |-> recipient, value |-> value,
                                    token_id |-> token_id])]

set_fee(f, new_fee, token_id) ==
    IF new_fee < 1
    THEN [err |-> "InsufficientFee", fee |-> f]
    ELSE [err |-> "Ok", fee |-> <<new_fee, token_id>>]

\* set_tombstone as it would be with the default taken for every argument
set_tombstone_always_default(t, blocks) == blocks + DEFAULT_NEW_TX_BLOCK_ATTEMPTS

\* the tombstone_block set_tombstone stores
set_tombstone(t, blocks) ==
    IF t > 0 THEN t ELSE blocks + DEFAULT_NEW_TX_BLOCK_ATTEMPTS

-----------------------------------------------------------------------------
(* Decoy sampling: WalletTransactionBuilder::get_rings and                 *)
(* LedgerService::sample_mixins.  A TxOut of the ledger is named by its    *)
(* index, and so is the membership proof fetched for that index.           *)

\* sampling_err as it would be with the first check left out
sampling_err_without_first_check(num_requested, excluded, ntxos) ==
    IF num_requested > ntxos - Len(excluded) THEN "InsufficientTxOuts" ELSE "Ok"

\* sampling_err as it would be with the excluded indices not counted in the
\* second check
sampling_err_not_counting_excluded(num_requested, excluded, ntxos) ==
    IF Len(excluded) > ntxos THEN "InvalidArgument"
    ELSE IF num_requested > ntxos THEN "InsufficientTxOuts"
    ELSE "Ok"

\* the two checks before the sampling loop
sampling_err(num_requested, excluded, ntxos) ==
    IF Len(excluded) > ntxos THEN "InvalidArgument"
    ELSE IF num_requested > ntxos - Len(excluded) THEN "InsufficientTxOuts"
    ELSE "Ok"

\* sampled_indices_vecs as it would be if an excluded index were not skipped
sampled_indices_vecs_not_excluding(num_requested, excluded, ntxos) ==
    InjSeqs(0 .. ntxos - 1, num_requested)

\* the values sampled_indices_vec can take once the loop has ended: the loop
\* inserts indices of 0..num_txos-1 that are not excluded into a HashSet until
\* it holds num_requested of them; the Vec lists the set in some order
sampled_indices_vecs(num_requested, excluded, ntxos) ==
    InjSeqs((0 .. ntxos - 1) \ SeqRange(excluded), num_requested)

\* the rings get_rings cuts out of sampled_indices_vec and its proofs
rings_with_proofs(vec, num_rings) ==
    [r \in 1 .. num_rings |->
        [j \in 1 .. RING_SIZE |->
            [tx_out |-> vec[(r - 1) * RING_SIZE + j],
             proof  |-> vec[(r - 1) * RING_SIZE + j]]]]

get_rings_err(num_rings, excluded, ntxos) ==
    sampling_err(RING_SIZE * num_rings, excluded, ntxos)

\* what a call of get_rings that passes the checks can return
get_rings(num_rings, excluded, ntxos) ==
    {rings_with_proofs(vec, num_rings) :
        vec \in sampled_indices_vecs(RING_SIZE * num_rings, excluded, ntxos)}

sample_mixins_err(num_mixins, excluded, ntxos) ==
    sampling_err(num_mixins, excluded, ntxos)

\* what a call of sample_mixins that passes the checks can return
sample_mixins(num_mixins, excluded, ntxos) ==
    {[tx_outs |-> vec, proofs |-> vec] :
        vec \in sampled_indices_vecs(num_mixins, excluded, ntxos)}

-----------------------------------------------------------------------------
(* WalletTransactionBuilder::build *)

\* u64 arithmetic: a build with overflow checks panics, one without wraps
OverflowModes == {"checked", "wrapping"}

BuildFails(e) == [err |-> e, tx |-> NoTx]

\* position of the input in its ring (0-based), -1 when absent
position_of(ring, db_tx_out) ==
    IF \E k \in 1 .. Len(ring) : ring[k] = db_tx_out
    THEN (CHOOSE k \in 1 .. Len(ring) :
              /\ ring[k] = db_tx_out
              /\ \A l \in 1 .. k - 1 : ring[l] # db_tx_out) - 1
    ELSE -1

\* input_credentials as it would be with the input pushed onto every ring
input_credentials_pushing(txo, ring_with_proofs) ==
    [txo |-> txo,
     ring |-> [k \in 1 .. Len(ring_with_proofs) |-> ring_with_proofs[k].tx_out]
                  \o <<TxoLedgerIndex(txo)>>,
     membership_proofs |->
         [k \in 1 .. Len(ring_with_proofs) |-> ring_with_proofs[k].proof]
             \o <<TxoLedgerIndex(txo)>>,
     real_index |-> Len(ring_with_proofs)]

\* input_credentials as it would be with the proof of slot 0 left as sampled
input_credentials_keeping_proof(txo, ring_with_proofs) ==
    LET db_tx_out == TxoLedgerIndex(txo)
        ring == [k \in 1 .. Len(ring_with_proofs) |-> ring_with_proofs[k].tx_out]
        membership_proofs ==
            [k \in 1 .. Len(ring_with_proofs) |-> ring_with_proofs[k].proof]
        position == position_of(ring, db_tx_out)
    IN IF position >= 0
       THEN [txo |-> txo, ring |-> ring, membership_proofs |-> membership_proofs,
             real_index |-> position]
       ELSE IF ring = <<>>
       THEN [txo |-> txo, ring |-> <<db_tx_out>>, membership_proofs |-> <<db_tx_out>>,
             real_index |-> 0]
       ELSE [txo |-> txo,
             ring |-> [ring EXCEPT ![1] = db_tx_out],
             membership_proofs |-> membership_proofs,
             real_index |-> 0]

\* the InputCredentials build makes of one input and the ring popped for it
input_credentials(txo, ring_with_proofs) ==
    LET db_tx_out == TxoLedgerIndex(txo)
        proof == TxoLedgerIndex(txo)
        ring == [k \in 1 .. Len(ring_with_proofs) |-> ring_with_proofs[k].tx_out]
        membership_proofs ==
            [k \in 1 .. Len(ring_with_proofs) |-> ring_with_proofs[k].proof]
        position == position_of(ring, db_tx_out)
    IN IF position >= 0
       THEN [txo |-> txo, ring |-> ring, membership_proofs |-> membership_proofs,
             real_index |-> position]
       ELSE IF ring = <<>>
       THEN [txo |-> txo, ring |-> <<db_tx_out>>, membership_proofs |-> <<proof>>,
             real_index |-> 0]
       ELSE [txo |-> txo,
             ring |-> [ring EXCEPT ![1] = db_tx_out],
             membership_proofs |-> [membership_proofs EXCEPT ![1] = proof],
             real_index |-> 0]

\* the keys of total_value_per_token
total_token_ids(outl, f) ==
    {outl[i].token_id : i \in 1 .. Len(outl)} \cup {fee_or_default(f)[2]}

\* the exact sum total_value_per_token accumulates for a key
total_value_exact(outl, f, token_id) ==
    (IF token_id = fee_or_default(f)[2] THEN fee_or_default(f)[1] ELSE 0)
        + outlay_sum(outl, token_id)

\* the keys of input_value_per_token, in BTreeMap order
input_token_ids(inp) == SetToSeq({TxoTokenId(inp[i]) : i \in 1 .. Len(inp)})

\* the exact sum input_value_per_token accumulates for a key
input_value_exact(inp, token_id) ==
    SumSeq([i \in 1 .. Len(inp) |->
               IF TxoTokenId(inp[i]) = token_id THEN TxoValue(inp[i]) ELSE 0])

\* change_value = input_value - *total_value, on u64 words
change_value(input_value, total_value) ==
    (input_value - total_value + Modulus) % Modulus

\* change_loop as it would be with no change output for a change of zero
RECURSIVE change_loop_skipping_zero(_, _, _, _, _, _)
change_loop_skipping_zero(toks, inp, outl, f, mode, acc) ==
    IF toks = <<>> THEN [err |-> "Ok", change |-> acc]
    ELSE IF Head(toks) \notin total_token_ids(outl, f)
    THEN [err |-> "MissingInputsForTokenId", change |-> acc]
    ELSE LET total_value == total_value_exact(outl, f, Head(toks)) % Modulus
             input_value == input_value_exact(inp, Head(toks)) % Modulus
         IN IF mode = "checked" /\ total_value > input_value
            THEN [err |-> "Panic", change |-> acc]
            ELSE change_loop_skipping_zero(Tail(toks), inp, outl, f, mode,
                     IF input_value = total_value THEN acc
                     ELSE Append(acc,
                              [value |-> change_value(input_value, total_value),
                               token_id |-> Head(toks)]))

\* the loop over input_value_per_token: the change outputs added so far are acc
RECURSIVE change_loop(_, _, _, _, _, _)
change_loop(toks, inp, outl, f, mode, acc) ==
    IF toks = <<>> THEN [err |-> "Ok", change |-> acc]
    ELSE IF Head(toks) \notin total_token_ids(outl, f)
    THEN [err |-> "MissingInputsForTokenId", change |-> acc]
    ELSE LET total_value == total_value_exact(outl, f, Head(toks)) % Modulus
             input_value == input_value_exact(inp, Head(toks)) % Modulus
         IN IF mode = "checked" /\ total_value > input_value
            THEN [err |-> "Panic", change |-> acc]
            ELSE change_loop(Tail(toks), inp, outl, f, mode,
                     Append(acc, [value |-> change_value(input_value, total_value),
                                  token_id |-> Head(toks)]))

\* build from the rings to the last input added, for one value of rings:
\* rings_and_proofs.pop() gives the i-th input the last ring left
build_inputs(inp, outl, rings) ==
    IF Len(rings) # Len(inp) THEN [err |-> "RingSizeMismatch", inputs |-> <<>>]
    ELSE IF outl = <<>> THEN [err |-> "NoRecipient", inputs |-> <<>>]
    ELSE LET n == Len(inp)
             creds == [i \in 1 .. n |-> input_credentials(inp[i], rings[n - i + 1])]
         IN IF \E i \in 1 .. n : Len(creds[i].ring) # Len(creds[i].membership_proofs)
            THEN [err |-> "RingSizeMismatch", inputs |-> <<>>]
            ELSE [err |-> "Ok", inputs |-> creds]

\* build from total_value_per_token to the last change output, for one
\* arithmetic mode: the `+=` of the two maps are u64 additions
build_outputs(inp, outl, f, mode) ==
    LET adds_overflow ==
            \/ \E t \in total_token_ids(outl, f) : total_value_exact(outl, f, t) > U64_MAX
            \/ \E t \in TokenIds : input_value_exact(inp, t) > U64_MAX
    IN IF mode = "checked" /\ adds_overflow THEN [err |-> "Panic", change |-> <<>>]
       ELSE change_loop(input_token_ids(inp), inp, outl, f, mode, <<>>)

\* payload_outputs as it would be with the outlays of one recipient and token
\* id merged into one output
RECURSIVE payload_outputs_merging(_)
payload_outputs_merging(outl) ==
    IF outl = <<>> THEN <<>>
    ELSE LET h == Head(outl)
             same(o) == o.recipient = h.recipient /\ o.token_id = h.token_id
             merged == SelectSeq(Tail(outl), same)
             others == SelectSeq(Tail(outl), LAMBDA o : ~same(o))
         IN <<[h EXCEPT !.value = h.value + SumSeq([i \in 1 .. Len(merged) |->
                                                       merged[i].value])]>>
                \o payload_outputs_merging(others)

\* the outputs the loop over the outlays adds: one add_output for each outlay,
\* in the order of the outlays
payload_outputs(outl) == outl

\* what build returns once both parts have run: the TransactionBuilder of
\* mc-transaction-std is handed the tombstone, fee, inputs and outputs and
\* derives the signing data from them (spec section 4.3, step 8)
get_signing_data(outl, tomb, f, ins, outs) ==
    IF ins.err # "Ok" THEN BuildFails(ins.err)
    ELSE IF outs.err # "Ok" THEN BuildFails(outs.err)
    ELSE [err |-> "Ok",
          tx |-> [tombstone_block |-> tomb,
                  fee |-> fee_or_default(f),
                  inputs |-> ins.inputs,
                  payload |-> payload_outputs(outl),
                  change |-> outs.change]]

\* tombstone_not_set as it would be with the check left out
tombstone_not_set_never(tomb) == FALSE

\* if self.tombstone == 0
tombstone_not_set(tomb) == tomb = 0

\* everything a call of build can return
build(inp, outl, tomb, f, ntxos) ==
    IF tombstone_not_set(tomb) THEN {BuildFails("TombstoneNotSet")}
    ELSE IF inp = <<>> THEN {BuildFails("NoInputs")}
    ELSE LET indexes == [i \in 1 .. Len(inp) |-> TxoLedgerIndex(inp[i])]
             e == get_rings_err(Len(inp), indexes, ntxos)
         IN IF e # "Ok" THEN {BuildFails(e)}
            ELSE {get_signing_data(outl, tomb, f, ins, outs) :
                     ins \in {build_inputs(inp, outl, rings) :
                                 rings \in get_rings(Len(inp), indexes, ntxos)},
                     outs \in {build_outputs(inp, outl, f, mode) :
                                  mode \in OverflowModes}}

-----------------------------------------------------------------------------
(* The state machine: one builder of one account, and the ledger growing   *)

Init ==
    /\ num_blocks = 1
    /\ num_txos = InitTxos
    /\ spent = InitSpent
    /\ inputs = <<>>
    /\ outlays = <<>>
    /\ tombstone = 0
    /\ fee = NoFee
    /\ ret = NewRet
    /\ tx = NoTx
    /\ mix = NoMix
    /\ account = "full"
    /\ assigned = {TxoSubaddress(id) : id \in TxoIds}
    /\ subaddress_index = [id \in TxoIds |-> TxoSubaddress(id)]
    /\ key_image = [id \in TxoIds |-> TxoKeyImage(id)]
    /\ key_images = InitKeyImages

SetTxos(ids) ==
    LET r == set_txos(ids, spent, inputs)
    IN /\ inputs' = r.inputs
       /\ ret' = [op |-> "set_txos", err |-> r.err]
       /\ tx' = NoTx
       /\ UNCHANGED <<num_blocks, num_txos, spent, outlays, tombstone, fee, mix>>
       /\ UNCHANGED subaddress_vars

SelectTxos(max_spendable_value) ==
    LET r == select_txos(outlays, fee, max_spendable_value, spent, inputs)
    IN /\ inputs' = r.inputs
       /\ ret' = [op |-> "select_txos", err |-> r.err]
       /\ tx' = NoTx
       /\ UNCHANGED <<num_blocks, num_txos, spent, outlays, tombstone, fee, mix>>
       /\ UNCHANGED subaddress_vars

AddRecipient(recipient, value, token_id) ==
    LET r == add_recipient(outlays, recipient, value, token_id)
    IN /\ Len(r.outlays) <= MaxOutlays
       /\ outlays' = r.outlays
       /\ ret' = [op |-> "add_recipient", err |-> r.err]
       /\ tx' = NoTx
       /\ UNCHANGED <<num_blocks, num_txos, spent, inputs, tombstone, fee, mix>>
       /\ UNCHANGED subaddress_vars

SetFee(new_fee, token_id) ==
    LET r == set_fee(fee, new_fee, token_id)
    IN /\ fee' = r.fee
       /\ ret' = [op |-> "set_fee", err |-> r.err]
       /\ tx' = NoTx
       /\ UNCHANGED <<num_blocks, num_txos, spent, inputs, outlays, tombstone, mix>>
       /\ UNCHANGED subaddress_vars

SetTombstone(t) ==
    /\ tombstone' = set_tombstone(t, num_blocks)
    /\ ret' = [op |-> "set_tombstone", err |-> "Ok"]
    /\ tx' = NoTx
    /\ UNCHANGED <<num_blocks, num_txos, spent, inputs, outlays, fee, mix>>
    /\ UNCHANGED subaddress_vars

\* a variant that records the inputs of the built transaction as spent
BuildMarkingInputsSpent ==
    \E r \in build(inputs, outlays, tombstone, fee, num_txos) :
        /\ ret' = [op |-> "build", err |-> r.err]
        /\ tx' = r.tx
        /\ spent' = [id \in DOMAIN spent |->
                        IF r.err = "Ok" /\ id \in SeqRange(inputs)
                        THEN num_blocks ELSE spent[id]]
        /\ UNCHANGED <<num_blocks, num_txos, inputs, outlays, tombstone, fee, mix>>
        /\ UNCHANGED subaddress_vars

Build ==
    \E r \in build(inputs, outlays, tombstone, fee, num_txos) :
        /\ ret' = [op |-> "build", err |-> r.err]
        /\ tx' = r.tx
        /\ UNCHANGED <<num_blocks, num_txos, spent, inputs, outlays, tombstone, fee, mix>>
        /\ UNCHANGED subaddress_vars

\* the network appends a block (with one output) to the ledger
AppendBlock ==
    /\ num_blocks < MaxBlocks
    /\ num_blocks' = num_blocks + 1
    /\ num_txos' = num_txos + 1
    /\ ret' = [op |-> "append_block", err |-> "Ok"]
    /\ tx' = NoTx
    /\ UNCHANGED <<spent, inputs, outlays, tombstone, fee, mix>>
    /\ UNCHANGED subaddress_vars

Next ==
    \/ \E ids \in SetTxosArgs : SetTxos(ids)
    \/ \E c \in MaxSpendableArgs : SelectTxos(c)
    \/ \E a \in OutlayArgs : AddRecipient(a[1], a[2], a[3])
    \/ \E a \in FeeArgs : SetFee(a[1], a[2])
    \/ \E t \in TombstoneArgs : SetTombstone(t)
    \/ Build
    \/ AppendBlock

Spec == Init /\ [][Next]_vars

-----------------------------------------------------------------------------
(* Decoy sampling called directly, on ledgers of every small size: the     *)
(* account has no outputs yet and the builder is new.                      *)

\* the sequences of at most n elements of S
SeqsUpTo(S, n) == UNION {[1 .. k -> S] : k \in 0 .. n}

\* the excluded indices a caller passes: some in range, repeated or not, and
\* some that no output of the ledger has
ExcludedArgs(ntxos) == SeqsUpTo({0, 1, ntxos}, MaxExcluded)

InitMixins ==
    /\ num_blocks = 1
    /\ num_txos \in 1 .. InitTxos
    /\ spent = <<>>
    /\ inputs = <<>>
    /\ outlays = <<>>
    /\ tombstone = 0
    /\ fee = NoFee
    /\ ret = NewRet
    /\ tx = NoTx
    /\ mix = NoMix
    /\ account = "full"
    /\ assigned = {}
    /\ subaddress_index = <<>>
    /\ key_image = <<>>
    /\ key_images = <<>>

GetRingsCall(num_rings, excluded) ==
    LET e == get_rings_err(num_rings, excluded, num_txos)
        call == [fn |-> "get_rings", num |-> num_rings, excluded |-> excluded]
    IN /\ mix = NoMix
       /\ \E rings \in (IF e = "Ok" THEN get_rings(num_rings, excluded, num_txos)
                        ELSE {<<>>}) :
              mix' = [call |-> call, err |-> e, rings |-> rings,
                      tx_outs |-> <<>>, proofs |-> <<>>]
       /\ UNCHANGED <<num_blocks, num_txos, spent, inputs, outlays, tombstone, fee, ret, tx>>
       /\ UNCHANGED subaddress_vars

SampleMixinsCall(num_mixins, excluded) ==
    LET e == sample_mixins_err(num_mixins, excluded, num_txos)
        call == [fn |-> "sample_mixins", num |-> num_mixins, excluded |-> excluded]
    IN /\ mix = NoMix
       /\ \E r \in (IF e = "Ok" THEN sample_mixins(num_mixins, excluded, num_txos)
                    ELSE {[tx_outs |-> <<>>, proofs |-> <<>>]}) :
              mix' = [call |-> call, err |-> e, rings |-> <<>>,
                      tx_outs |-> r.tx_outs, proofs |-> r.proofs]
       /\ UNCHANGED <<num_blocks, num_txos, spent, inputs, outlays, tombstone, fee, ret, tx>>
       /\ UNCHANGED subaddress_vars

NextMixins ==
    \/ \E n \in 0 .. 2, excluded \in ExcludedArgs(num_txos) : GetRingsCall(n, excluded)
    \/ \E n \in 0 .. RING_SIZE + 1, excluded \in ExcludedArgs(num_txos) :
           SampleMixinsCall(n, excluded)

SpecMixins == InitMixins /\ [][NextMixins]_vars

-----------------------------------------------------------------------------
(* The sampling loop of get_rings and sample_mixins, one draw of the random *)
(* source for each step.  mix holds the call: its arguments, the place it   *)
(* has reached and the HashSet sampled_indices.                             *)

InitSampling ==
    /\ num_blocks = 1
    /\ num_txos \in 0 .. InitTxos
    /\ spent = <<>>
    /\ inputs = <<>>
    /\ outlays = <<>>
    /\ tombstone = 0
    /\ fee = NoFee
    /\ ret = NewRet
    /\ tx = NoTx
    /\ mix = NoMix
    /\ account = "full"
    /\ assigned = {}
    /\ subaddress_index = <<>>
    /\ key_image = <<>>
    /\ key_images = <<>>

\* the function up to the while loop: the two checks return the error, or the
\* loop is entered with an empty HashSet
sampling_start(fn, num_requested, excluded, ntxos) ==
    LET e == sampling_err(num_requested, excluded, ntxos)
    IN [fn |-> fn, num_requested |-> num_requested, excluded |-> excluded,
        err |-> e, pc |-> IF e = "Ok" THEN "loop" ELSE "returned",
        sampled_indices |-> {}]

GetRingsStart(num_rings, excluded) ==
    /\ mix = NoMix
    /\ mix' = sampling_start("get_rings", RING_SIZE * num_rings, excluded, num_txos)
    /\ UNCHANGED <<num_blocks, num_txos, spent, inputs, outlays, tombstone, fee, ret, tx>>
    /\ UNCHANGED subaddress_vars

SampleMixinsStart(num_mixins, excluded) ==
    /\ mix = NoMix
    /\ mix' = sampling_start("sample_mixins", num_mixins, excluded, num_txos)
    /\ UNCHANGED <<num_blocks, num_txos, spent, inputs, outlays, tombstone, fee, ret, tx>>
    /\ UNCHANGED subaddress_vars

\* one turn of the while loop with rng.gen_range(0..num_txos) = index: an
\* excluded index is skipped and an index already in the HashSet changes
\* nothing
SampleIndex(index) ==
    /\ mix # NoMix
    /\ mix.pc = "loop"
    /\ Cardinality(mix.sampled_indices) < mix.num_requested
    /\ index < num_txos
    /\ mix' = IF index \in SeqRange(mix.excluded) THEN mix
              ELSE [mix EXCEPT !.sampled_indices = @ \cup {index}]
    /\ UNCHANGED <<num_blocks, num_txos, spent, inputs, outlays, tombstone, fee, ret, tx>>
    /\ UNCHANGED subaddress_vars

\* the loop condition is false: the function goes on to the proofs and returns
SamplingDone ==
    /\ mix # NoMix
    /\ mix.pc = "loop"
    /\ Cardinality(mix.sampled_indices) >= mix.num_requested
    /\ mix' = [mix EXCEPT !.pc = "returned"]
    /\ UNCHANGED <<num_blocks, num_txos, spent, inputs, outlays, tombstone, fee, ret, tx>>
    /\ UNCHANGED subaddress_vars

NextSampling ==
    \/ \E n \in 0 .. 2, excluded \in ExcludedArgs(num_txos) : GetRingsStart(n, excluded)
    \/ \E n \in 0 .. RING_SIZE + 1, excluded \in ExcludedArgs(num_txos) :
           SampleMixinsStart(n, excluded)
    \/ \E index \in 0 .. InitTxos - 1 : SampleIndex(index)
    \/ SamplingDone

\* a fair random source: a draw that adds an index is not put off for ever
SpecSampling ==
    /\ InitSampling
    /\ [][NextSampling]_vars
    /\ WF_vars(\E index \in 0 .. InitTxos - 1 : SampleIndex(index))
    /\ WF_vars(SamplingDone)

-----------------------------------------------------------------------------
(* The builder next to the sync thread, which scans the blocks the ledger   *)
(* gains and records the outputs of the account they spend.                 *)

\* the sync thread has scanned a new block that holds the key image of an
\* unspent output of the account: the row of the output gets the block index
\* as spent_block_index. The builder keeps the Txo rows it read before.
ScannerMarksSpent(id) ==
    /\ num_blocks < MaxBlocks
    /\ spent[id] = None
    /\ spent' = [spent EXCEPT ![id] = num_blocks]
    /\ key_images' = [key_images EXCEPT ![TxoKeyImage(id)] = num_blocks]
    /\ num_blocks' = num_blocks + 1
    /\ num_txos' = num_txos + 1
    /\ ret' = [op |-> "sync", err |-> "Ok"]
    /\ tx' = NoTx
    /\ UNCHANGED <<inputs, outlays, tombstone, fee, mix,
                   account, assigned, subaddress_index, key_image>>

NextScanner ==
    \/ \E ids \in SetTxosArgs : SetTxos(ids)
    \/ \E c \in MaxSpendableArgs : SelectTxos(c)
    \/ \E a \in OutlayArgs : AddRecipient(a[1], a[2], a[3])
    \/ \E t \in TombstoneArgs : SetTombstone(t)
    \/ Build
    \/ \E id \in TxoIds : ScannerMarksSpent(id)

SpecScanner == Init /\ [][NextScanner]_vars

-----------------------------------------------------------------------------
(* AssignedSubaddress::create_next_for_account and the orphaned outputs *)

\* account.next_subaddress_index(conn): the index after the largest assigned one
next_subaddress_index(asg) ==
    IF asg = {} THEN 0 ELSE (CHOOSE i \in asg : \A j \in asg : j <= i) + 1

\* Txo::list_orphaned: the outputs of the account without a subaddress index
list_orphaned(sub_idx) == {id \in DOMAIN sub_idx : sub_idx[id] = None}

\* the test of the repair loop: the recovered subaddress spend key of the
\* output is the spend key of the new subaddress
orphan_matches(id, idx) == TxoSubaddress(id) = idx

\* ledger_db.contains_key_image
contains_key_image(kis, k) == kis[k] # None

\* the block index the repair loop stores as spent_block_index: the block of
\* the ledger that holds the output itself
spent_block_index_of(kis, id) == BlockOfTxOut(TxoLedgerIndex(id))

\* a variant that re-labels every orphaned txo, whatever its spend key
repaired_every_orphan(sub_idx, idx) == list_orphaned(sub_idx)
\* a variant whose loop goes over every txo of the account, orphaned or not
repaired_of_any_txo(sub_idx, idx) == {id \in DOMAIN sub_idx : orphan_matches(id, idx)}
\* the orphaned outputs the repair loop re-labels
repaired(sub_idx, idx) == {id \in list_orphaned(sub_idx) : orphan_matches(id, idx)}

\* the loop over the orphaned txos (view-only accounts lines 183-207, other
\* accounts lines 222-267) for the subaddress idx: its error and the rows of
\* the txos after it. The txos are visited in the order of their ids; fail is
\* the txo for whose key image the lookup in the ledger returns an error (None
\* when every lookup answers): the ? of line 244 returns from the function,
\* after the updates of the txos visited before
repair_pass(acc, idx, sub_idx, kimg, spt, kis, fail) ==
    LET fix == repaired(sub_idx, idx)
        failed == acc # "view_only" /\ fail \in fix
        done == IF failed THEN {id \in fix : id < fail} ELSE fix
    IN IF acc = "view_only"
       THEN [err |-> "Ok",
             subaddress_index |-> [id \in DOMAIN sub_idx |->
                                      IF id \in done THEN idx ELSE sub_idx[id]],
             key_image |-> kimg, spent |-> spt]
       ELSE [err |-> IF failed THEN "LedgerDB" ELSE "Ok",
             subaddress_index |-> [id \in DOMAIN sub_idx |->
                                      IF id \in done THEN idx ELSE sub_idx[id]],
             key_image |-> [id \in DOMAIN kimg |->
                               IF id \in done THEN TxoKeyImage(id) ELSE kimg[id]],
             spent |-> [id \in DOMAIN spt |->
                           IF id \in done /\ contains_key_image(kis, TxoKeyImage(id))
                           THEN spent_block_index_of(kis, id)
                           ELSE spt[id]]]

\* create_next_for_account: the error, and the rows of the wallet db after the
\* call. The function opens no transaction: the insert of line 213-214 (or
\* 174-179) and every update are executed on conn as they come
create_next_for_account(acc, asg, sub_idx, kimg, spt, kis, fail) ==
    IF acc = "fog"
    THEN [err |-> "SubaddressesNotSupportedForFOGEnabledAccounts", assigned |-> asg,
          subaddress_index |-> sub_idx, key_image |-> kimg, spent |-> spt]
    ELSE LET idx == next_subaddress_index(asg)
             rows == repair_pass(acc, idx, sub_idx, kimg, spt, kis, fail)
         IN [err |-> rows.err, assigned |-> asg \cup {idx},
             subaddress_index |-> rows.subaddress_index,
             key_image |-> rows.key_image, spent |-> rows.spent]

\* the txo at which a lookup in the ledger fails, None for no failure
LedgerFailArgs == {None} \cup TxoIds

\* the wallet knows subaddress 0 only: the outputs of the other subaddresses
\* are orphaned, without key image and without spent block
InitSubaddress ==
    /\ num_blocks = 1
    /\ num_txos = InitTxos
    /\ account \in {"full", "view_only", "fog"}
    /\ assigned = {0}
    /\ subaddress_index = [id \in TxoIds |->
                              IF TxoSubaddress(id) = 0 THEN 0 ELSE None]
    /\ key_image = [id \in TxoIds |->
                       IF TxoSubaddress(id) = 0 THEN TxoKeyImage(id) ELSE None]
    /\ spent = InitSpent
    /\ key_images = InitKeyImages
    /\ inputs = <<>>
    /\ outlays = <<>>
    /\ tombstone = 0
    /\ fee = NoFee
    /\ ret = NewRet
    /\ tx = NoTx
    /\ mix = NoMix

CreateNextForAccount(fail) ==
    /\ next_subaddress_index(assigned) <= MaxSubaddress
    /\ LET r == create_next_for_account(account, assigned, subaddress_index,
                                        key_image, spent, key_images, fail)
       IN /\ ret' = [op |-> "create_next_for_account", err |-> r.err]
          /\ assigned' = r.assigned
          /\ subaddress_index' = r.subaddress_index
          /\ key_image' = r.key_image
          /\ spent' = r.spent
    /\ UNCHANGED <<num_blocks, num_txos, inputs, outlays, tombstone, fee, tx, mix,
                   account, key_images>>

\* the network appends a block whose transaction spends an output of the
\* account (another holder of the account key spent it)
SpendOnLedger(id) ==
    /\ num_blocks <= MaxBlocks
    /\ ~ contains_key_image(key_images, TxoKeyImage(id))
    /\ key_images' = [key_images EXCEPT ![TxoKeyImage(id)] = num_blocks]
    /\ num_blocks' = num_blocks + 1
    /\ num_txos' = num_txos + 1
    /\ ret' = NewRet
    /\ UNCHANGED <<spent, inputs, outlays, tombstone, fee, tx, mix,
                   account, assigned, subaddress_index, key_image>>

NextSubaddress ==
    \/ \E fail \in LedgerFailArgs : CreateNextForAccount(fail)
    \/ \E id \in TxoIds : SpendOnLedger(id)

SpecSubaddress == InitSubaddress /\ [][NextSubaddress]_vars

-----------------------------------------------------------------------------
(* wasm-sdk: Transaction::build_signed_transaction.  tx holds the            *)
(* unsigned_tx_proposal of the Transaction, ret what the last call returned. *)

\* hex::encode of a value, u64::to_string, AmountJSON::from: an encoding is
\* the encoded value under the name of the encoding
hex_encode(x) == <<"hex", x>>
to_string(n) == <<"string", n>>
amount_json(a) == [value |-> to_string(a.value), token_id |-> to_string(a.token_id)]

\* the UnsignedInputTxo of an output of the wallet
unsigned_input_txo(id) ==
    [tx_out |-> TxoLedgerIndex(id), subaddress_index |-> TxoSubaddress(id),
     amount |-> [value |-> TxoValue(id), token_id |-> TxoTokenId(id)]]

\* the OutputTxo made for a recipient, a value and a token id
output_txo(recipient, value, token_id) ==
    [tx_out |-> <<"tx_out", recipient, value, token_id>>,
     recipient_public_address |-> recipient,
     confirmation_number |-> <<"confirmation", recipient, value>>,
     amount |-> [value |-> value, token_id |-> token_id]]

\* the proposals a Transaction is made of: one or more inputs, one payload
\* output, one change output or none
UnsignedTxProposals ==
    {[unsigned_tx |-> [tx_prefix |-> [inputs |-> ids, fee |-> <<MINIMUM_FEE, MobId>>,
                                      tombstone_block |-> DEFAULT_NEW_TX_BLOCK_ATTEMPTS]],
      unsigned_input_txos |-> [i \in 1 .. Len(ids) |-> unsigned_input_txo(ids[i])],
      payload_txos |-> <<output_txo(a[1], a[2], a[3])>>,
      change_txos |-> change] :
        ids \in UNION {InjSeqs({1, 2, 3}, n) : n \in 1 .. MaxInputs},
        a \in OutlayArgs,
        change \in {<<>>, <<output_txo("change", 1, MobId)>>}}

\* the ring signatures a caller hands in, each with its key image: fewer
\* than the inputs, as many, or one more
RingSignaturesArgs ==
    UNION {[1 .. n -> {[key_image |-> k] : k \in {1, 2}}] : n \in 0 .. MaxInputs + 1}

InputTxoJSON(src) ==
    [tx_out_proto |-> hex_encode(src.tx_out),
     amount |-> amount_json(src.amount),
     subaddress_index |-> to_string(src.subaddress_index),
     key_image |-> hex_encode(src.key_image)]

OutputTxoJSON(src) ==
    [tx_out_proto |-> hex_encode(src.tx_out),
     amount |-> amount_json(src.amount),
     recipient_public_address_b58 |-> <<"b58", src.recipient_public_address>>,
     confirmation_number |-> hex_encode(src.confirmation_number)]

TxProposalJSON(src) ==
    [input_txos |-> [i \in 1 .. Len(src.input_txos) |-> InputTxoJSON(src.input_txos[i])],
     payload_txos |-> [i \in 1 .. Len(src.payload_txos) |->
                          OutputTxoJSON(src.payload_txos[i])],
     change_txos |-> [i \in 1 .. Len(src.change_txos) |->
                         OutputTxoJSON(src.change_txos[i])],
     fee_amount |-> amount_json([value |-> src.tx.prefix.fee[1],
                                 token_id |-> src.tx.prefix.fee[2]]),
     tombstone_block_index |-> to_string(src.tx.prefix.tombstone_block),
     tx_proto |-> hex_encode(src.tx)]

\* input_txos as it would be with the key image of the first signature on
\* every input
input_txos_with_first_key_image(unsigned_input_txos, ring_signatures) ==
    IF ring_signatures = <<>>
    THEN [err |-> "Could not find key image in signatures", input_txos |-> <<>>]
    ELSE [err |-> "Ok",
          input_txos |->
              [i \in 1 .. Len(unsigned_input_txos) |->
                  [tx_out |-> unsigned_input_txos[i].tx_out,
                   subaddress_index |-> unsigned_input_txos[i].subaddress_index,
                   key_image |-> ring_signatures[1].key_image,
                   amount |-> unsigned_input_txos[i].amount]]]

\* "put key image from signature to inputs": the map over the enumerated
\* unsigned inputs, collected into a Result
input_txos(unsigned_input_txos, ring_signatures) ==
    IF \E i \in 1 .. Len(unsigned_input_txos) : i > Len(ring_signatures)
    THEN [err |-> "Could not find key image in signatures", input_txos |-> <<>>]
    ELSE [err |-> "Ok",
          input_txos |->
              [i \in 1 .. Len(unsigned_input_txos) |->
                  [tx_out |-> unsigned_input_txos[i].tx_out,
                   subaddress_index |-> unsigned_input_txos[i].subaddress_index,
                   key_image |-> ring_signatures[i].key_image,
                   amount |-> unsigned_input_txos[i].amount]]]

NoProposal == [none |-> "tx_proposal"]

\* build_signed_transaction: signing_data_ok and ring_signatures_ok say
\* whether into_serde parses the two arguments, valid is the answer of
\* validate_signature for the assembled Tx, encodable whether
\* TxProposalJSON::try_from returns Ok (its result is unwrapped)
build_signed_transaction(proposal, signing_data_ok, ring_signatures_ok, ring_signatures, valid, encodable) ==
    IF ~ signing_data_ok
    THEN [err |-> "Failed to parse signing_data_json", tx_proposal |-> NoProposal]
    ELSE IF ~ ring_signatures_ok
    THEN [err |-> "Failed to parse ring_signatures_json", tx_proposal |-> NoProposal]
    ELSE LET ins == input_txos(proposal.unsigned_input_txos, ring_signatures)
             signed == [prefix |-> proposal.unsigned_tx.tx_prefix,
                        signature |-> [ring_signatures |-> ring_signatures]]
         IN IF ins.err # "Ok" THEN [err |-> ins.err, tx_proposal |-> NoProposal]
            ELSE IF ~ valid
            THEN [err |-> "Failed to validate tx", tx_proposal |-> NoProposal]
            ELSE IF ~ encodable
            THEN [err |-> "Panic", tx_proposal |-> NoProposal]
            ELSE [err |-> "Ok",
                  tx_proposal |-> TxProposalJSON(
                      [tx |-> signed,
                       payload_txos |-> proposal.payload_txos,
                       change_txos |-> proposal.change_txos,
                       input_txos |-> ins.input_txos])]

InitSigner ==
    /\ num_blocks = 1
    /\ num_txos = InitTxos
    /\ spent = InitSpent
    /\ inputs = <<>>
    /\ outlays = <<>>
    /\ tombstone = 0
    /\ fee = NoFee
    /\ ret = NewRet
    /\ tx \in UnsignedTxProposals
    /\ mix = NoMix
    /\ account = "full"
    /\ assigned = {TxoSubaddress(id) : id \in TxoIds}
    /\ subaddress_index = [id \in TxoIds |-> TxoSubaddress(id)]
    /\ key_image = [id \in TxoIds |-> TxoKeyImage(id)]
    /\ key_images = InitKeyImages

BuildSignedTransaction(signing_data_ok, ring_signatures_ok, ring_signatures, valid, encodable) ==
    LET r == build_signed_transaction(tx, signing_data_ok, ring_signatures_ok,
                                      ring_signatures, valid, encodable)
    IN /\ ret' = [op |-> "build_signed_transaction", err |-> r.err,
                  tx_proposal |-> r.tx_proposal,
                  ring_signatures |-> ring_signatures,
                  parsed |-> signing_data_ok /\ ring_signatures_ok,
                  valid |-> valid]
       /\ UNCHANGED <<num_blocks, num_txos, spent, inputs, outlays, tombstone, fee, tx, mix>>
       /\ UNCHANGED subaddress_vars

NextSigner ==
    \E signing_data_ok \in BOOLEAN, ring_signatures_ok \in BOOLEAN,
       ring_signatures \in RingSignaturesArgs, valid \in BOOLEAN, encodable \in BOOLEAN :
        BuildSignedTransaction(signing_data_ok, ring_signatures_ok, ring_signatures,
                               valid, encodable)

SpecSigner == InitSigner /\ [][NextSigner]_vars

-----------------------------------------------------------------------------
(* Properties *)

BuiltOk == ret.op = "build" /\ ret.err = "Ok"

\* the token ids of the inputs of the built transaction
BuiltInputTokens == {TxoTokenId(tx.inputs[i].txo) : i \in 1 .. Len(tx.inputs)}

BuiltInputValue(t) ==
    SumSeq([i \in 1 .. Len(tx.inputs) |->
               IF TxoTokenId(tx.inputs[i].txo) = t THEN TxoValue(tx.inputs[i].txo) ELSE 0])
BuiltPayloadValue(t) ==
    SumSeq([i \in 1 .. Len(tx.payload) |->
               IF tx.payload[i].token_id = t THEN tx.payload[i].value ELSE 0])
BuiltChangeValue(t) ==
    SumSeq([i \in 1 .. Len(tx.change) |->
               IF tx.change[i].token_id = t THEN tx.change[i].value ELSE 0])
BuiltFeeValue(t) == IF tx.fee[2] = t THEN tx.fee[1] ELSE 0

\* C1: in every successfully built transaction, for every token id among the
\* inputs, the input values sum to the payload values plus the change value
\* plus the fee (the fee counted for the fee token id only).
C1_Balance ==
    BuiltOk =>
        \A t \in BuiltInputTokens :
            BuiltInputValue(t) = BuiltPayloadValue(t) + BuiltChangeValue(t) + BuiltFeeValue(t)

\* build gets as far as the balance: tombstone, inputs, recipients and the
\* ledger are fine, and every input token id has a requested total
BuildReachesBalance ==
    /\ tombstone # 0
    /\ inputs # <<>>
    /\ outlays # <<>>
    /\ get_rings_err(Len(inputs),
                     [i \in 1 .. Len(inputs) |-> TxoLedgerIndex(inputs[i])],
                     num_txos) = "Ok"
    /\ \A i \in 1 .. Len(inputs) : TxoTokenId(inputs[i]) \in total_token_ids(outlays, fee)

\* C2: a build whose inputs total less, for some token id, than the recipient
\* values plus fee of that token id fails with InsufficientInputFunds and
\* returns no payload.
C2_InsufficientInputFunds ==
    (/\ ret.op = "build"
     /\ BuildReachesBalance
     /\ \E t \in TokenIds :
            input_value_exact(inputs, t) < total_value_exact(outlays, fee, t))
        => (ret.err = "InsufficientInputFunds" /\ tx = NoTx)

C4_TooLargeBeforeSelection ==
    [][\A c \in MaxSpendableArgs :
          (/\ SelectTxos(c)
           /\ \E t \in total_token_ids(outlays, fee) :
                  target_value_of(outlays, fee, t) > U64_MAX)
              => (ret'.err = "OutboundValueTooLarge" /\ inputs' = inputs)]_vars

\* C5: a successful build emits exactly one change output for each token id
\* among the inputs (and none for another token id), also for a change of zero.
C5_OneChangePerInputToken ==
    BuiltOk =>
        \A t \in TokenIds :
            Cardinality({k \in 1 .. Len(tx.change) : tx.change[k].token_id = t})
                = (IF t \in BuiltInputTokens THEN 1 ELSE 0)

\* a build succeeded whose inputs equal recipients plus fee: the change is zero
C5_Witness ==
    /\ BuiltOk
    /\ \E k \in 1 .. Len(tx.change) :
           /\ tx.change[k].value = 0
           /\ BuiltPayloadValue(tx.change[k].token_id) > 0
           /\ BuiltInputValue(tx.change[k].token_id)
                  = BuiltPayloadValue(tx.change[k].token_id)
                        + BuiltFeeValue(tx.change[k].token_id)

\* C6: every input of a successfully built transaction has a ring of
\* RING_SIZE members and RING_SIZE membership proofs, and its real output is
\* at exactly one position of the ring.
C6_RingShape ==
    BuiltOk =>
        \A i \in 1 .. Len(tx.inputs) :
            /\ Len(tx.inputs[i].ring) = RING_SIZE
            /\ Len(tx.inputs[i].membership_proofs) = RING_SIZE
            /\ Cardinality({k \in 1 .. Len(tx.inputs[i].ring) :
                               tx.inputs[i].ring[k] = TxoLedgerIndex(tx.inputs[i].txo)}) = 1

\* a transaction with two inputs was built
C6_Witness == BuiltOk /\ C1_Balance /\ Len(tx.inputs) = 2

\* C9: set_tombstone(0) on a ledger of H blocks stores H + 10, set_tombstone(t)
\* with t > 0 stores t, and the transaction built afterwards carries the
\* stored value as its tombstone block.
C9_Tombstone ==
    /\ [][\A t \in TombstoneArgs :
             SetTombstone(t) => tombstone' = (IF t = 0 THEN num_blocks + 10 ELSE t)]_vars
    /\ [](BuiltOk => tx.tombstone_block = tombstone)

\* a transaction was built with the default tombstone of the current ledger
C9_Witness == BuiltOk /\ C1_Balance /\ tx.tombstone_block = num_blocks + 10

\* C10: the tombstone block of a successfully built transaction is nonzero and
\* greater than the number of blocks of the ledger when build runs.
C10_TombstoneAboveHeight ==
    BuiltOk => (tx.tombstone_block # 0 /\ tx.tombstone_block > num_blocks)

Sampled == mix # NoMix /\ mix.err = "Ok"

\* the ledger indices a sampling call returned, ring after ring
SampledIndices ==
    IF mix.call.fn = "get_rings"
    THEN [k \in 1 .. Len(mix.rings) * RING_SIZE |->
             mix.rings[((k - 1) \div RING_SIZE) + 1][((k - 1) % RING_SIZE) + 1].tx_out]
    ELSE mix.tx_outs

\* C7: the indices one call of get_rings or sample_mixins samples are below
\* the ledger's output count, not excluded, and pairwise different over all
\* rings of the call.
C7_SampledIndices ==
    Sampled =>
        /\ \A k \in 1 .. Len(SampledIndices) :
               /\ SampledIndices[k] \in 0 .. num_txos - 1
               /\ SampledIndices[k] \notin SeqRange(mix.call.excluded)
        /\ \A k, l \in 1 .. Len(SampledIndices) :
               k # l => SampledIndices[k] # SampledIndices[l]

\* two rings were sampled with an index excluded
C7_Witness ==
    /\ Sampled
    /\ mix.call.fn = "get_rings"
    /\ Len(mix.rings) = 2
    /\ \E k \in 1 .. Len(mix.call.excluded) : mix.call.excluded[k] \in 0 .. num_txos - 1

\* C8: sampling fails with InvalidArgument when more indices are excluded
\* than the ledger has outputs, with InsufficientTxOuts when more decoys are
\* requested than the output count less the number of excluded indices, and
\* otherwise returns num_rings rings of RING_SIZE (output, proof) pairs
\* (sample_mixins: num_mixins outputs and as many proofs).
C8_SamplingResult ==
    mix # NoMix =>
        LET requested == IF mix.call.fn = "get_rings" THEN RING_SIZE * mix.call.num
                         ELSE mix.call.num
            excluded == Len(mix.call.excluded)
        IN IF excluded > num_txos THEN mix.err = "InvalidArgument"
           ELSE IF requested > num_txos - excluded THEN mix.err = "InsufficientTxOuts"
           ELSE /\ mix.err = "Ok"
                /\ mix.call.fn = "get_rings" =>
                       /\ Len(mix.rings) = mix.call.num
                       /\ \A r \in 1 .. Len(mix.rings) : Len(mix.rings[r]) = RING_SIZE
                /\ mix.call.fn = "sample_mixins" =>
                       /\ Len(mix.tx_outs) = mix.call.num
                       /\ Len(mix.proofs) = mix.call.num

\* each of the three outcomes: here the first check refused the call
C8_Witness ==
    /\ mix # NoMix
    /\ mix.call.fn = "get_rings"
    /\ mix.err = "InvalidArgument"
    /\ mix.call.num > 0

\* C11: build fails with TombstoneNotSet exactly when the tombstone is still
\* 0, whatever the inputs and recipients; the tombstone is 0 only as long as
\* set_tombstone was never called, because only set_tombstone changes it and
\* every set_tombstone leaves it nonzero.
C11_TombstoneNotSet ==
    /\ [](ret.op = "build" => (ret.err = "TombstoneNotSet" <=> tombstone = 0))
    /\ [][/\ tombstone' # tombstone => ret'.op = "set_tombstone"
          /\ ret'.op = "set_tombstone" => tombstone' # 0]_vars

\* build refused a builder with inputs, recipients and a ledger large enough,
\* for the tombstone alone
C11_Witness ==
    /\ ret = [op |-> "build", err |-> "TombstoneNotSet"]
    /\ inputs # <<>>
    /\ outlays # <<>>
    /\ get_rings_err(Len(inputs),
                     [i \in 1 .. Len(inputs) |-> TxoLedgerIndex(inputs[i])],
                     num_txos) = "Ok"

\* C12: with a tombstone set, build fails with NoInputs when the inputs are
\* empty and with NoRecipient when the inputs are not empty and the recipient
\* list is, whatever the size of the ledger.
C12_PreconditionsFirst ==
    (ret.op = "build" /\ tombstone # 0) =>
        /\ inputs = <<>> => ret.err = "NoInputs"
        /\ (inputs # <<>> /\ outlays = <<>>) => ret.err = "NoRecipient"

\* C13: a successful build yields one payload output for each recipient added,
\* in the order of the add_recipient calls, with the address, value and token
\* id of the call (outlays is the list of the successful calls, in order).
C13_RecipientsNotAggregated ==
    BuiltOk =>
        /\ Len(tx.payload) = Len(outlays)
        /\ \A i \in 1 .. Len(outlays) :
               /\ tx.payload[i].recipient = outlays[i].recipient
               /\ tx.payload[i].value = outlays[i].value
               /\ tx.payload[i].token_id = outlays[i].token_id

\* a balanced transaction was built for the same address added twice
C13_Witness ==
    /\ BuiltOk
    /\ C1_Balance
    /\ Len(outlays) = 2
    /\ outlays[1].recipient = outlays[2].recipient
    /\ outlays[1].token_id = outlays[2].token_id

\* C14: set_fee with a fee below the minimum fee fails with InsufficientFee
\* and leaves the fee of the builder unchanged.
C14_FeeBelowMinimumRefused ==
    [][\A a \in FeeArgs :
          (SetFee(a[1], a[2]) /\ a[2] = MobId /\ a[1] < MINIMUM_FEE)
              => (ret'.err = "InsufficientFee" /\ fee' = fee)]_vars

\* the fee build uses for a builder state
BuilderFee == IF fee = NoFee THEN <<MINIMUM_FEE, MobId>> ELSE fee

\* C15: the fee of a built transaction is that of the last successful set_fee,
\* (MINIMUM_FEE, Mob) when there was none; only a successful set_fee changes
\* the fee of the builder; and a successful select_txos has selected for the
\* fee token id a target that counts the same fee.
C15_Fee ==
    /\ [](BuiltOk => tx.fee = BuilderFee)
    /\ [][/\ \A a \in FeeArgs :
                 (SetFee(a[1], a[2]) /\ ret'.err = "Ok") => fee' = <<a[1], a[2]>>
          /\ fee' # fee => (ret'.op = "set_fee" /\ ret'.err = "Ok")
          /\ \A c \in MaxSpendableArgs :
                 (SelectTxos(c) /\ ret'.err = "Ok") =>
                     LET toks == {outlays[i].token_id : i \in 1 .. Len(outlays)}
                                     \cup {BuilderFee[2]}
                         last == CHOOSE t \in toks : \A u \in toks : u <= t
                         target(t) == outlay_sum(outlays, t)
                                          + (IF t = BuilderFee[2] THEN BuilderFee[1] ELSE 0)
                     IN /\ select_spendable_txos_for_value(
                               target(BuilderFee[2]), c, BuilderFee[2], spent).err = "Ok"
                        /\ inputs' = select_spendable_txos_for_value(
                                         target(last), c, last, spent).txos]_vars

\* a balanced transaction was built with a fee set by set_fee
C15_Witness == BuiltOk /\ C1_Balance /\ fee # NoFee /\ tx.fee = fee

\* the token ids with a requested value, and the target of each
RequestedTokens == {outlays[i].token_id : i \in 1 .. Len(outlays)} \cup {BuilderFee[2]}
RequestedValue(t) ==
    outlay_sum(outlays, t) + (IF t = BuilderFee[2] THEN BuilderFee[1] ELSE 0)

\* the unspent outputs of a token id, those of value <= c, and a set's total
UnspentOf(t) == {id \in TxoIds : spent[id] = None /\ TxoTokenId(id) = t}
UnderCap(t, c) == {id \in UnspentOf(t) : TxoValue(id) <= c}
TotalOf(S) == SumSeq(TxoValues(SetToSeq(S)))

\* C16: select_txos with a cap c never selects an output of value above c;
\* when one token id is requested, it fails with NoSpendableTxos if no unspent
\* output of it is within the cap, with InsufficientFundsUnderMaxSpendable if
\* the outputs within the cap total less than the target and all unspent
\* outputs cover it, and succeeds with outputs within the cap that cover the
\* target if those within the cap cover it.
C16_MaxSpendable ==
    [][\A c \in MaxSpendableArgs \ {None} :
          SelectTxos(c) =>
              /\ ret'.err = "Ok" =>
                     \A i \in 1 .. Len(inputs') : TxoValue(inputs'[i]) <= c
              /\ \A t \in RequestedTokens :
                     (RequestedTokens = {t} /\ RequestedValue(t) <= U64_MAX) =>
                         IF UnderCap(t, c) = {}
                         THEN ret'.err = "NoSpendableTxos"
                         ELSE IF TotalOf(UnderCap(t, c)) >= RequestedValue(t)
                         THEN /\ ret'.err = "Ok"
                              /\ SeqRange(inputs') \subseteq UnderCap(t, c)
                              /\ TotalOf(SeqRange(inputs')) >= RequestedValue(t)
                         ELSE TotalOf(UnspentOf(t)) >= RequestedValue(t) =>
                                  ret'.err = "InsufficientFundsUnderMaxSpendable"]_vars

\* a selection failed for the cap alone
C16_Witness ==
    /\ ret = [op |-> "select_txos", err |-> "InsufficientFundsUnderMaxSpendable"]
    /\ outlays # <<>>

\* C17: after a successful select_txos the inputs are unspent outputs whose
\* values, for every token id with a requested value, total at least the
\* target of that token id.
C17_SelectionCoversEveryToken ==
    (ret = [op |-> "select_txos", err |-> "Ok"]) =>
        /\ \A i \in 1 .. Len(inputs) : spent[inputs[i]] = None
        /\ \A t \in RequestedTokens :
               input_value_exact(inputs, t) >= RequestedValue(t)

\* C18: set_txos sets the inputs to exactly the listed outputs that are
\* unspent; when their values sum to more than u64::MAX it fails with
\* OutboundValueTooLarge and leaves the inputs unchanged.
C18_SetTxos ==
    [][\A ids \in SetTxosArgs :
          SetTxos(ids) =>
              LET unspent == {id \in ids \cap TxoIds : spent[id] = None}
              IN IF TotalOf(unspent) > U64_MAX
                 THEN ret'.err = "OutboundValueTooLarge" /\ inputs' = inputs
                 ELSE /\ ret'.err = "Ok"
                      /\ SeqRange(inputs') = unspent
                      /\ Len(inputs') = Cardinality(unspent)]_vars

\* set_txos refused a list and the builder kept the inputs it had
C18_Witness ==
    /\ ret = [op |-> "set_txos", err |-> "OutboundValueTooLarge"]
    /\ inputs # <<>>

\* C19: a build that gets as far as the outputs, with inputs that cover what
\* is requested of their own token ids and with a recipient of a token id of
\* which the inputs hold no value, fails with MissingInputsForTokenId.
C19_MissingInputsForTokenId ==
    (/\ ret.op = "build"
     /\ tombstone # 0
     /\ inputs # <<>>
     /\ outlays # <<>>
     /\ get_rings_err(Len(inputs),
                      [i \in 1 .. Len(inputs) |-> TxoLedgerIndex(inputs[i])],
                      num_txos) = "Ok"
     /\ \A j \in 1 .. Len(inputs) :
            input_value_exact(inputs, TxoTokenId(inputs[j]))
                >= RequestedValue(TxoTokenId(inputs[j]))
     /\ \E i \in 1 .. Len(outlays) :
            \A j \in 1 .. Len(inputs) : TxoTokenId(inputs[j]) # outlays[i].token_id)
        => ret.err = "MissingInputsForTokenId"

\* the subaddress index the last successful create_next_for_account assigned
NewSubaddress == next_subaddress_index(assigned) - 1
CreatedNext == ret.op = "create_next_for_account" /\ ret.err = "Ok"

\* C20: after create_next_for_account on an account that holds the spend
\* key, every output that was sent to the new subaddress carries the new
\* subaddress index and its key image, and if that key image is in the spent
\* set of the ledger it is marked spent with the index of the block in which
\* it was spent
C20_OrphanRepair ==
    (CreatedNext /\ account = "full") =>
        \A id \in TxoIds :
            orphan_matches(id, NewSubaddress) =>
                /\ subaddress_index[id] = NewSubaddress
                /\ key_image[id] = TxoKeyImage(id)
                /\ contains_key_image(key_images, TxoKeyImage(id)) =>
                       spent[id] = key_images[TxoKeyImage(id)]

BuilderOps == {"set_txos", "select_txos", "add_recipient", "set_fee", "set_tombstone",
               "build"}

\* C22: no operation of the builder, successful or failed, writes to the
\* wallet db or to the ledger: the rows of the txos, the assigned
\* subaddresses and the ledger are the same after it as before
C22_BuilderWritesNothing ==
    [][ret'.op \in BuilderOps =>
          /\ spent' = spent
          /\ subaddress_index' = subaddress_index
          /\ key_image' = key_image
          /\ assigned' = assigned
          /\ num_blocks' = num_blocks
          /\ num_txos' = num_txos
          /\ key_images' = key_images]_vars

\* a transaction was built from inputs and the store is as it was
C22_Witness ==
    /\ BuiltOk
    /\ Len(tx.inputs) > 0
    /\ spent = InitSpent
    /\ key_images = InitKeyImages

\* C23: create_next_for_account is atomic: when it returns an error no
\* assigned subaddress was inserted and no row of a txo was modified, and
\* when it succeeds every orphaned output sent to the new subaddress has the
\* new subaddress index
C23_RepairAtomic ==
    [][ret'.op = "create_next_for_account" =>
          IF ret'.err # "Ok"
          THEN /\ assigned' = assigned
               /\ subaddress_index' = subaddress_index
               /\ key_image' = key_image
               /\ spent' = spent
          ELSE \A id \in list_orphaned(subaddress_index) :
                   orphan_matches(id, next_subaddress_index(assigned)) =>
                       subaddress_index'[id] = next_subaddress_index(assigned)]_vars

\* the errors build returns before it adds up the values (lines 266-310)
BuildPreconditionErrors == {"TombstoneNotSet", "NoInputs", "InsufficientTxOuts",
                            "InvalidArgument", "RingSizeMismatch", "NoRecipient"}

\* an aggregate of build for one token id is above u64::MAX
AggregateTooLarge ==
    \E t \in TokenIds :
        \/ total_value_exact(outlays, fee, t) > U64_MAX
        \/ input_value_exact(inputs, t) > U64_MAX

\* C24: when the fee plus the recipient values of a token id, or the input
\* values of a token id, are above u64::MAX, a build that passed its
\* precondition checks returns OutboundValueTooLarge
C24_BuildOverflowTyped ==
    (/\ ret.op = "build"
     /\ ret.err \notin BuildPreconditionErrors
     /\ AggregateTooLarge) => ret.err = "OutboundValueTooLarge"

\* the real index of the credentials points at the real output, the proof at
\* that index is the proof of the ledger index of the input (a proof is named
\* by the ledger index it proves), and ring and proofs have one length
RealInputInPlace(c) ==
    /\ c.real_index \in 0 .. Len(c.ring) - 1
    /\ c.ring[c.real_index + 1] = TxoLedgerIndex(c.txo)
    /\ c.membership_proofs[c.real_index + 1] = TxoLedgerIndex(c.txo)
    /\ Len(c.ring) = Len(c.membership_proofs)

\* the rings a caller may hand to the merge: of every length up to RING_SIZE,
\* with or without the real output, each member with its own proof
MergeRings ==
    UNION {[1 .. k -> {[tx_out |-> x, proof |-> x] : x \in 0 .. 2}] :
              k \in 0 .. RING_SIZE}

\* C25: the merge of an input into its ring leaves the real index at the real
\* output and the proof of the input at that index: a non-empty ring without
\* the real output gets slot 0 of ring and proofs overwritten and real index 0,
\* an empty ring gets the pair appended, ring and proofs have equal length;
\* so it is for every input of a successfully built transaction, whose ring
\* is sampled without the inputs
C25_RealInputIndex ==
    /\ BuiltOk =>
           \A i \in 1 .. Len(tx.inputs) :
               /\ RealInputInPlace(tx.inputs[i])
               /\ tx.inputs[i].real_index = 0
    /\ \A id \in TxoIds, r \in MergeRings :
           LET c == input_credentials(id, r)
               ring == [k \in 1 .. Len(r) |-> r[k].tx_out]
               proofs == [k \in 1 .. Len(r) |-> r[k].proof]
           IN /\ RealInputInPlace(c)
              /\ (r # <<>> /\ position_of(ring, TxoLedgerIndex(id)) < 0) =>
                     /\ c.real_index = 0
                     /\ c.ring = [ring EXCEPT ![1] = TxoLedgerIndex(id)]
                     /\ c.membership_proofs = [proofs EXCEPT ![1] = TxoLedgerIndex(id)]
              /\ r = <<>> =>
                     /\ c.ring = <<TxoLedgerIndex(id)>>
                     /\ c.membership_proofs = <<TxoLedgerIndex(id)>>

\* a transaction was built whose first input, output 2, took slot 0 of a ring
\* that was sampled without it
C25_Witness ==
    /\ BuiltOk
    /\ tx.inputs[1].txo = 2
    /\ tx.inputs[1].real_index = 0
    /\ tx.inputs[1].ring[1] = TxoLedgerIndex(2)
    /\ tx.inputs[1].membership_proofs[1] = TxoLedgerIndex(2)

\* C26: a select_txos that returns an error leaves the inputs of the builder
\* as they were before the call, for any number of requested token ids
C26_FailedSelectionKeepsInputs ==
    [][(ret'.op = "select_txos" /\ ret'.err # "Ok") => inputs' = inputs]_vars

\* C27: under every interleaving of the sync thread with the builder, every
\* input of a transaction build returns is unspent in the wallet db when
\* build returns (an input marked spent after the selection makes build
\* fail); stated for the transactions whose values balance and whose payload
\* is of the token ids of the inputs
C27_BuiltInputsUnspent ==
    (/\ BuiltOk
     /\ C1_Balance
     /\ \A k \in 1 .. Len(tx.payload) : tx.payload[k].token_id \in BuiltInputTokens) =>
        \A i \in 1 .. Len(tx.inputs) : spent[tx.inputs[i].txo] = None

SamplingCalled == mix # NoMix
SamplingReturned == mix # NoMix /\ mix.pc = "returned"

\* C28: the sampling loop of get_rings and of sample_mixins terminates: a
\* call whose two checks pass, also with repeated or out-of-range excluded
\* indices, returns in the end with the requested number of distinct
\* non-excluded indices of the ledger, and a call whose check fails returns
\* its error without a turn of the loop
C28_SamplingTerminates ==
    /\ SamplingCalled ~> SamplingReturned
    /\ [](SamplingReturned =>
              IF mix.err = "Ok"
              THEN /\ Cardinality(mix.sampled_indices) = mix.num_requested
                   /\ mix.sampled_indices \subseteq (0 .. num_txos - 1)
                   /\ mix.sampled_indices \cap SeqRange(mix.excluded) = {}
              ELSE mix.sampled_indices = {})
    /\ []((SamplingCalled /\ mix.err # "Ok") => mix.pc = "returned")

\* a call with a repeated excluded index and one that no output has returned
\* after its loop collected as many indices as the checks let it ask for
C28_Witness ==
    /\ SamplingReturned
    /\ mix.err = "Ok"
    /\ mix.excluded = <<0, 0, num_txos>>
    /\ mix.num_requested = num_txos - Len(mix.excluded)
    /\ mix.num_requested > 0

SignedOk == ret.op = "build_signed_transaction" /\ ret.err = "Ok"

\* C30: build_signed_transaction pairs inputs and ring signatures by position:
\* the i-th input of the proposal it returns carries the key image of the i-th
\* ring signature and the output, subaddress index and amount of the i-th
\* unsigned input, and the payload and change outputs are those of the
\* unsigned proposal, in their order; with fewer ring signatures than inputs,
\* or with a transaction whose signature does not validate, it returns an error
C30_SignedInputsByPosition ==
    /\ SignedOk =>
           /\ Len(ret.tx_proposal.input_txos) = Len(tx.unsigned_input_txos)
           /\ \A i \in 1 .. Len(tx.unsigned_input_txos) :
                  /\ ret.tx_proposal.input_txos[i].key_image
                         = hex_encode(ret.ring_signatures[i].key_image)
                  /\ ret.tx_proposal.input_txos[i].tx_out_proto
                         = hex_encode(tx.unsigned_input_txos[i].tx_out)
                  /\ ret.tx_proposal.input_txos[i].subaddress_index
                         = to_string(tx.unsigned_input_txos[i].subaddress_index)
                  /\ ret.tx_proposal.input_txos[i].amount
                         = amount_json(tx.unsigned_input_txos[i].amount)
           /\ ret.tx_proposal.payload_txos
                  = [i \in 1 .. Len(tx.payload_txos) |-> OutputTxoJSON(tx.payload_txos[i])]
           /\ ret.tx_proposal.change_txos
                  = [i \in 1 .. Len(tx.change_txos) |-> OutputTxoJSON(tx.change_txos[i])]
    /\ (/\ ret.op = "build_signed_transaction"
        /\ \/ Len(ret.ring_signatures) < Len(tx.unsigned_input_txos)
           \/ ~ ret.valid) => ret.err \notin {"Ok", "Panic"}

\* a proposal of two inputs was signed with two ring signatures of different
\* key images
C30_Witness ==
    /\ SignedOk
    /\ Len(tx.unsigned_input_txos) = 2
    /\ ret.ring_signatures[1].key_image # ret.ring_signatures[2].key_image
    /\ tx.change_txos # <<>>

====
